---- MODULE Spec2Model ----
\* A model of s3-store-mock (src/index.mjs): an S3-like object store kept in
\* a directory tree, one data file per key plus a ".meta" sidecar file.
\*
\* Strings the program takes apart are modelled by their parts:
\*   - a file name is a sequence of tokens, "a.meta" = <<"a", ".meta">>, so
\*     that appending the suffix and testing endsWith('.meta') are computed;
\*   - a path below the bucket directory is a sequence of file names,
\*     "a/x" = << <<"a">>, <<"x">> >>, and the bucket directory is << >>;
\*   - file content is a sequence of tokens, so that JSON.stringify and
\*     JSON.parse of the metadata record are computed, not assumed.
EXTENDS Integers, Sequences, FiniteSets, TLC

VARIABLES fs, last, created, procs, ncalls

vars == <<fs, last, created, procs, ncalls>>

-----------------------------------------------------------------------------
\* Bounds of the model.

\* Calls each of the overlapping callers makes in a behaviour of SpecConc.
MaxCalls == 2

-----------------------------------------------------------------------------
\* Inputs.

KeyA == << <<"a">> >>
KeyAMeta == << <<"a", ".meta">> >>
KeyAX == << <<"a">>, <<"x">> >>

\* "a", "a.meta" (the name of a's sidecar) and "a/x" (below a).
Keys == {KeyA, KeyAMeta, KeyAX}

ContentTypes == {"application/json", "text/plain"}

DefaultContentType == "application/json"

Null == << >>

B1 == <<"hello">>

\* A fingerprint that does not read the bytes.
calculateEtag_constant(content) == <<"\"", "md5", "\"">>

\* crypto md5 + hex + quotes: a fingerprint of the bytes, here collision free.
calculateEtag(content) == <<"\"", "md5">> \o content \o <<"\"">>

\* JSON.stringify({ etag, contentType })
JSONstringify(meta) ==
  <<"{", "etag:">> \o meta.etag \o <<"contentType:", meta.contentType, "}">>

\* JSON.parse of file content, as a sequence holding the record, or empty
\* where JSON.parse throws.
JSONparse(text) ==
  LET n == Len(text) IN
  IF /\ n >= 5
     /\ text[1] = "{"
     /\ text[2] = "etag:"
     /\ text[n - 2] = "contentType:"
     /\ text[n] = "}"
  THEN << [etag |-> SubSeq(text, 3, n - 3), contentType |-> text[n - 1]] >>
  ELSE << >>

\* A body that is JSON text, of the shape of a metadata record.
B2 == JSONstringify([etag |-> calculateEtag(B1), contentType |-> DefaultContentType])

Bodies == {B1, B2}

Etags == {calculateEtag(b) : b \in Bodies} \cup {Null}

Prefixes == {<< >>, KeyA, KeyAX, << <<"zz">> >>}

-----------------------------------------------------------------------------
\* Paths and the file system.

dirname(p) == SubSeq(p, 1, Len(p) - 1)

getFilePath(key) == key

getMetaPath(key) == [key EXCEPT ![Len(key)] = Append(@, ".meta")]

Prefixes0(p) == {SubSeq(p, 1, i) : i \in 0..Len(p)}

AllPaths ==
  UNION {Prefixes0(getFilePath(k)) \cup Prefixes0(getMetaPath(k)) : k \in Keys}
    \cup UNION {Prefixes0(p) : p \in Prefixes}

NoEnt == [kind |-> "none", content |-> << >>]
DirEnt == [kind |-> "dir", content |-> << >>]
FileEnt(c) == [kind |-> "file", content |-> c]

\* Proper ancestors of p, the bucket directory included.
Ancestors(p) == {SubSeq(p, 1, i) : i \in 0..(Len(p) - 1)}

\* The errno path resolution of p gives, "" when p resolves.
resolve(fsys, p) ==
  IF \E q \in Ancestors(p) : fsys[q].kind = "file" THEN "ENOTDIR"
  ELSE IF \E q \in Ancestors(p) \cup {p} : fsys[q].kind = "none" THEN "ENOENT"
  ELSE ""

\* fs.mkdir(dir, { recursive: true })
mkdir(fsys, dir) ==
  IF \E q \in Ancestors(dir) : fsys[q].kind = "file"
  THEN [err |-> "ENOTDIR", fs |-> fsys]
  ELSE IF fsys[dir].kind = "file"
  THEN [err |-> "EEXIST", fs |-> fsys]
  ELSE [err |-> "",
        fs |-> [q \in AllPaths |->
                  IF q \in Ancestors(dir) \cup {dir} THEN DirEnt ELSE fsys[q]]]

\* fs.writeFile(p, content)
writeFile(fsys, p, content) ==
  IF resolve(fsys, dirname(p)) # ""
  THEN [err |-> resolve(fsys, dirname(p)), fs |-> fsys]
  ELSE IF fsys[p].kind = "dir"
  THEN [err |-> "EISDIR", fs |-> fsys]
  ELSE [err |-> "", fs |-> [fsys EXCEPT ![p] = FileEnt(content)]]

\* fs.readFile(p)
readFile(fsys, p) ==
  IF resolve(fsys, p) # ""
  THEN [err |-> resolve(fsys, p), content |-> << >>]
  ELSE IF fsys[p].kind = "dir"
  THEN [err |-> "EISDIR", content |-> << >>]
  ELSE [err |-> "", content |-> fsys[p].content]

\* fs.unlink(p)
unlink(fsys, p) ==
  IF resolve(fsys, p) # ""
  THEN [err |-> resolve(fsys, p), fs |-> fsys]
  ELSE IF fsys[p].kind = "dir"
  THEN [err |-> "EISDIR", fs |-> fsys]
  ELSE [err |-> "", fs |-> [fsys EXCEPT ![p] = NoEnt]]

\* fs.access(p): the errno, "" when p exists (a file or a directory).
access(fsys, p) == resolve(fsys, p)

ensureDir(fsys, filePath) == mkdir(fsys, dirname(filePath))

\* An existence check that never finds the file.
fileExists_never(fsys, filePath) == FALSE

fileExists(fsys, filePath) == access(fsys, filePath) = ""

readMeta(fsys, key) ==
  LET r == readFile(fsys, getMetaPath(key)) IN
  IF r.err # "" THEN << >> ELSE JSONparse(r.content)

writeMeta(fsys, key, meta) ==
  LET d == ensureDir(fsys, getMetaPath(key)) IN
  IF d.err # "" THEN d
  ELSE writeFile(d.fs, getMetaPath(key), JSONstringify(meta))

-----------------------------------------------------------------------------
\* A call in progress: the operation, its arguments, the place it has reached
\* (pc names the next awaited call, "done" once it has returned or thrown),
\* its locals and its result.

NewFrame(op, pc, key, body, etag, contentType) ==
  [op |-> op, pc |-> pc, key |-> key, body |-> body, etag |-> etag,
   contentType |-> contentType,
   status |-> "running", errName |-> "", errCode |-> "", errno |-> "",
   respEtag |-> Null, respBody |-> << >>, respMeta |-> << >>, respList |-> << >>,
   dir |-> << >>, todo |-> << >>, results |-> << >>, started |-> << >>]

NoCall == [NewFrame("none", "done", << >>, << >>, Null, "") EXCEPT !.status = "none"]

goto(f, pc) == [f EXCEPT !.pc = pc]

\* throw of an error with the given name and Code properties.
throw(f, name, code) ==
  [f EXCEPT !.pc = "done", !.status = "error", !.errName = name, !.errCode = code]

\* An error of the fs module, propagated as it is: name 'Error', code = errno.
throwFs(f, errno) ==
  [f EXCEPT !.pc = "done", !.status = "error", !.errName = "Error", !.errno = errno]

\* return new ResponseWrapper(response, etag)
ResponseWrapper(f, etag) ==
  [f EXCEPT !.pc = "done", !.status = "ok", !.respEtag = etag]

\* return new GetResponseWrapper(response, meta?.etag), response.Body.content
\* being the bytes read.
GetResponseWrapper(f, content, meta) ==
  [f EXCEPT !.pc = "done", !.status = "ok", !.respBody = content,
            !.respEtag = IF meta = << >> THEN Null ELSE meta[1].etag]

\* A guard that only asks for metadata and does not compare the etag.
stale_metaOnly(meta, etag) == meta = << >>

\* A guard that lets every write through.
stale_never(meta, etag) == FALSE

\* The Conflict Guard: !meta || meta.etag !== etag
stale(meta, etag) == meta = << >> \/ meta[1].etag # etag

createObjectStep(fsys, f) ==
  CASE f.pc = "fileExists" ->
         IF fileExists(fsys, getFilePath(f.key))
         THEN [fs |-> fsys, f |-> throw(f, "KeyExistsError", "")]
         ELSE [fs |-> fsys, f |-> goto(f, "ensureDir")]
    [] f.pc = "ensureDir" ->
         LET d == ensureDir(fsys, getFilePath(f.key)) IN
         IF d.err # "" THEN [fs |-> fsys, f |-> throwFs(f, d.err)]
         ELSE [fs |-> d.fs, f |-> goto(f, "writeFile")]
    [] f.pc = "writeFile" ->
         LET w == writeFile(fsys, getFilePath(f.key), f.body) IN
         IF w.err # "" THEN [fs |-> fsys, f |-> throwFs(f, w.err)]
         ELSE [fs |-> w.fs, f |-> goto(f, "writeMeta")]
    [] f.pc = "writeMeta" ->
         LET etag == calculateEtag(f.body)
             w == writeMeta(fsys, f.key, [etag |-> etag, contentType |-> f.contentType])
         IN IF w.err # "" THEN [fs |-> w.fs, f |-> throwFs(f, w.err)]
            ELSE [fs |-> w.fs, f |-> ResponseWrapper(f, etag)]

\* putObjectIfMatch storing the expected etag in place of the new one.
putObjectIfMatchStep_oldEtag(fsys, f) ==
  CASE f.pc = "readMeta" ->
         IF stale(readMeta(fsys, f.key), f.etag)
         THEN [fs |-> fsys, f |-> throw(f, "StaleDataError", "")]
         ELSE [fs |-> fsys, f |-> goto(f, "ensureDir")]
    [] f.pc = "ensureDir" ->
         LET d == ensureDir(fsys, getFilePath(f.key)) IN
         IF d.err # "" THEN [fs |-> fsys, f |-> throwFs(f, d.err)]
         ELSE [fs |-> d.fs, f |-> goto(f, "writeFile")]
    [] f.pc = "writeFile" ->
         LET w == writeFile(fsys, getFilePath(f.key), f.body) IN
         IF w.err # "" THEN [fs |-> fsys, f |-> throwFs(f, w.err)]
         ELSE [fs |-> w.fs, f |-> goto(f, "writeMeta")]
    [] f.pc = "writeMeta" ->
         LET newEtag == calculateEtag(f.body)
             w == writeMeta(fsys, f.key, [etag |-> f.etag, contentType |-> f.contentType])
         IN IF w.err # "" THEN [fs |-> w.fs, f |-> throwFs(f, w.err)]
            ELSE [fs |-> w.fs, f |-> ResponseWrapper(f, newEtag)]

putObjectIfMatchStep(fsys, f) ==
  CASE f.pc = "readMeta" ->
         IF stale(readMeta(fsys, f.key), f.etag)
         THEN [fs |-> fsys, f |-> throw(f, "StaleDataError", "")]
         ELSE [fs |-> fsys, f |-> goto(f, "ensureDir")]
    [] f.pc = "ensureDir" ->
         LET d == ensureDir(fsys, getFilePath(f.key)) IN
         IF d.err # "" THEN [fs |-> fsys, f |-> throwFs(f, d.err)]
         ELSE [fs |-> d.fs, f |-> goto(f, "writeFile")]
    [] f.pc = "writeFile" ->
         LET w == writeFile(fsys, getFilePath(f.key), f.body) IN
         IF w.err # "" THEN [fs |-> fsys, f |-> throwFs(f, w.err)]
         ELSE [fs |-> w.fs, f |-> goto(f, "writeMeta")]
    [] f.pc = "writeMeta" ->
         LET newEtag == calculateEtag(f.body)
             w == writeMeta(fsys, f.key, [etag |-> newEtag, contentType |-> f.contentType])
         IN IF w.err # "" THEN [fs |-> w.fs, f |-> throwFs(f, w.err)]
            ELSE [fs |-> w.fs, f |-> ResponseWrapper(f, newEtag)]

getObjectStep(fsys, f) ==
  CASE f.pc = "getObject.readMeta" ->
         [fs |-> fsys,
          f |-> [goto(f, "getObject.readFile") EXCEPT !.respMeta = readMeta(fsys, f.key)]]
    [] f.pc = "getObject.readFile" ->
         LET r == readFile(fsys, getFilePath(f.key)) IN
         IF r.err = "ENOENT" THEN [fs |-> fsys, f |-> throw(f, "Error", "NoSuchKey")]
         ELSE IF r.err # "" THEN [fs |-> fsys, f |-> throwFs(f, r.err)]
         ELSE [fs |-> fsys, f |-> GetResponseWrapper(f, r.content, f.respMeta)]

getObjectIfMatchStep(fsys, f) ==
  CASE f.pc = "fileExists" ->
         IF ~fileExists(fsys, getFilePath(f.key))
         THEN [fs |-> fsys, f |-> throw(f, "NoSuchKey", "NoSuchKey")]
         ELSE [fs |-> fsys, f |-> goto(f, "readMeta")]
    [] f.pc = "readMeta" ->
         IF stale(readMeta(fsys, f.key), f.etag)
         THEN [fs |-> fsys, f |-> throw(f, "StaleDataError", "")]
         ELSE [fs |-> fsys, f |-> goto(f, "getObject.readMeta")]
    [] OTHER -> getObjectStep(fsys, f)

\* A delete that removes the data file and leaves the sidecar.
deleteObjectStep_dataOnly(fsys, f) ==
  LET u == unlink(fsys, getFilePath(f.key)) IN
  IF u.err \notin {"", "ENOENT"} THEN [fs |-> fsys, f |-> throwFs(f, u.err)]
  ELSE [fs |-> u.fs, f |-> ResponseWrapper(f, Null)]

deleteObjectStep(fsys, f) ==
  CASE f.pc = "deleteObject.unlinkFile" ->
         LET u == unlink(fsys, getFilePath(f.key)) IN
         IF u.err \notin {"", "ENOENT"} THEN [fs |-> fsys, f |-> throwFs(f, u.err)]
         ELSE [fs |-> u.fs, f |-> goto(f, "deleteObject.unlinkMeta")]
    [] f.pc = "deleteObject.unlinkMeta" ->
         LET u == unlink(fsys, getMetaPath(f.key)) IN
         IF u.err \notin {"", "ENOENT"} THEN [fs |-> fsys, f |-> throwFs(f, u.err)]
         ELSE [fs |-> u.fs, f |-> ResponseWrapper(f, Null)]

deleteObjectIfMatchStep(fsys, f) ==
  CASE f.pc = "readMeta" ->
         IF stale(readMeta(fsys, f.key), f.etag)
         THEN [fs |-> fsys, f |-> throw(f, "StaleDataError", "")]
         ELSE [fs |-> fsys, f |-> goto(f, "deleteObject.unlinkFile")]
    [] OTHER -> deleteObjectStep(fsys, f)

\* entry.name.endsWith('.meta')
endsWithMeta(name) == name[Len(name)] = ".meta"

\* fs.readdir(dir): the entries of a directory.
readdir(fsys, dir) ==
  {p \in AllPaths : Len(p) = Len(dir) + 1 /\ dirname(p) = dir /\ fsys[p].kind # "none"}

\* The entries walk(dir, baseDir) pushes on results, in the order of the
\* traversal: a directory is walked where it is met, a regular file whose name
\* does not end in '.meta' gives one entry (Key: its path relative to the
\* bucket directory, Size: stats.size).
RECURSIVE walkEntries(_, _)
walkEntries(fsys, entries) ==
  IF entries = {} THEN << >>
  ELSE LET entry == CHOOSE e \in entries : \A o \in entries : Len(e[Len(e)]) <= Len(o[Len(o)])
           here == IF fsys[entry].kind = "dir"
                   THEN walkEntries(fsys, readdir(fsys, entry))
                   ELSE IF ~endsWithMeta(entry[Len(entry)])
                   THEN << [Key |-> entry, Size |-> Len(fsys[entry].content)] >>
                   ELSE << >>
       IN here \o walkEntries(fsys, entries \ {entry})

walk(fsys, dir) == walkEntries(fsys, readdir(fsys, dir))

\* The entries of a directory in the order readdir gives them, each with the
\* type its Dirent holds (withFileTypes).
RECURSIVE dirents(_, _)
dirents(fsys, entries) ==
  IF entries = {} THEN << >>
  ELSE LET entry == CHOOSE e \in entries : \A o \in entries : Len(e[Len(e)]) <= Len(o[Len(o)])
       IN << [path |-> entry, kind |-> fsys[entry].kind] >>
            \o dirents(fsys, entries \ {entry})

\* The loop of walk up to its next await: entries that are neither a
\* directory nor a file to list are passed over.
RECURSIVE passOver(_)
passOver(todo) ==
  IF todo = << >> THEN << >>
  ELSE IF Head(todo).kind = "file" /\ endsWithMeta(Head(todo).path[Len(Head(todo).path)])
  THEN passOver(Tail(todo))
  ELSE todo

\* walk resumed with the entries still to visit (those of the directory being
\* read, then those of the directories around it): the next await is the
\* walk of a directory or the stat of a file; with nothing left the iterator
\* yields results, when there are any, and returns.
walkOn(f, todo, results) ==
  LET t == passOver(todo) IN
  IF t = << >>
  THEN [f EXCEPT !.pc = "done", !.status = "ok", !.todo = << >>, !.results = results,
                 !.respList = IF Len(results) > 0 THEN <<results>> ELSE << >>]
  ELSE IF Head(t).kind = "dir"
  THEN [f EXCEPT !.pc = "readdir", !.dir = Head(t).path, !.todo = Tail(t),
                 !.results = results]
  ELSE [f EXCEPT !.pc = "stat", !.todo = t, !.results = results]

\* list(prefix): fs.access(searchPath), then walk(searchPath, basePath), one
\* awaited readdir or stat at a time.  f.started is history: the entries a
\* traversal of the store as it is at the first readdir would give.
listStep(fsys, f) ==
  CASE f.pc = "access" ->
         IF access(fsys, f.key) # ""
         THEN [fs |-> fsys, f |-> [f EXCEPT !.pc = "done", !.status = "ok"]]
         ELSE [fs |-> fsys, f |-> [f EXCEPT !.pc = "readdir", !.dir = f.key]]
    [] f.pc = "readdir" ->
         IF resolve(fsys, f.dir) # "" THEN [fs |-> fsys, f |-> throwFs(f, resolve(fsys, f.dir))]
         ELSE IF fsys[f.dir].kind # "dir" THEN [fs |-> fsys, f |-> throwFs(f, "ENOTDIR")]
         ELSE [fs |-> fsys,
               f |-> walkOn([f EXCEPT !.started = IF f.dir = f.key
                                                  THEN walk(fsys, f.key) ELSE @],
                            dirents(fsys, readdir(fsys, f.dir)) \o f.todo,
                            f.results)]
    [] f.pc = "stat" ->
         LET fullPath == Head(f.todo).path IN
         IF resolve(fsys, fullPath) # "" THEN [fs |-> fsys, f |-> throwFs(f, resolve(fsys, fullPath))]
         ELSE [fs |-> fsys,
               f |-> walkOn(f, Tail(f.todo),
                            Append(f.results,
                                   [Key |-> fullPath, Size |-> Len(fsys[fullPath].content)]))]

\* One step of a call: from one awaited call to the next.
Step(fsys, f) ==
  CASE f.op = "createObject" -> createObjectStep(fsys, f)
    [] f.op = "putObjectIfMatch" -> putObjectIfMatchStep(fsys, f)
    [] f.op = "getObject" -> getObjectStep(fsys, f)
    [] f.op = "getObjectIfMatch" -> getObjectIfMatchStep(fsys, f)
    [] f.op = "deleteObject" -> deleteObjectStep(fsys, f)
    [] f.op = "deleteObjectIfMatch" -> deleteObjectIfMatchStep(fsys, f)
    [] f.op = "list" -> listStep(fsys, f)

\* A call run from its first step to its return or throw with no other call
\* in between.
RECURSIVE Run(_, _)
Run(fsys, f) ==
  IF f.pc = "done" THEN [fs |-> fsys, f |-> f]
  ELSE LET r == Step(fsys, f) IN Run(r.fs, r.f)

-----------------------------------------------------------------------------
\* The calls, as a caller makes them.

createObjectCall(key, body, contentType) ==
  NewFrame("createObject", "fileExists", key, body, Null, contentType)

putObjectIfMatchCall(key, body, etag, contentType) ==
  NewFrame("putObjectIfMatch", "readMeta", key, body, etag, contentType)

getObjectIfMatchCall(key, etag) ==
  NewFrame("getObjectIfMatch", "fileExists", key, << >>, etag, "")

getObjectCall(key) ==
  NewFrame("getObject", "getObject.readMeta", key, << >>, Null, "")

deleteObjectIfMatchCall(key, etag) ==
  NewFrame("deleteObjectIfMatch", "readMeta", key, << >>, etag, "")

deleteObjectCall(key) ==
  NewFrame("deleteObject", "deleteObject.unlinkFile", key, << >>, Null, "")

\* list(prefix): the frame's key holds path.join(basePath, prefix).
listCall(prefix) ==
  NewFrame("list", "access", prefix, << >>, Null, "")

-----------------------------------------------------------------------------
\* Spec: calls made one after the other, each awaited before the next.

Procs == {1, 2}

Init ==
  /\ fs = [p \in AllPaths |-> NoEnt]
  /\ last = NoCall
  /\ created = {}
  /\ procs = [p \in Procs |-> NoCall]
  /\ ncalls = [p \in Procs |-> 0]

\* A call made and awaited: the store after it and its result.  created is
\* history, not program state: the keys a createObject has returned for and
\* no deleteObject or deleteObjectIfMatch has returned for since.
Completed(r, createdAfter) ==
  /\ fs' = r.fs
  /\ last' = r.f
  /\ created' = IF r.f.status = "ok" THEN createdAfter ELSE created
  /\ UNCHANGED <<procs, ncalls>>

createObject ==
  \E key \in Keys, body \in Bodies, contentType \in ContentTypes :
    \E r \in {Run(fs, createObjectCall(key, body, contentType))} :
      /\ r.f.pc = "done"
      /\ Completed(r, created \cup {key})

putObjectIfMatch ==
  \E key \in Keys, body \in Bodies, etag \in Etags, contentType \in ContentTypes :
    \E r \in {Run(fs, putObjectIfMatchCall(key, body, etag, contentType))} :
      /\ r.f.pc = "done"
      /\ Completed(r, created)

getObjectIfMatch ==
  \E key \in Keys, etag \in Etags :
    \E r \in {Run(fs, getObjectIfMatchCall(key, etag))} :
      /\ r.f.pc = "done"
      /\ Completed(r, created)

getObject ==
  \E key \in Keys :
    \E r \in {Run(fs, getObjectCall(key))} :
      /\ r.f.pc = "done"
      /\ Completed(r, created)

deleteObjectIfMatch ==
  \E key \in Keys, etag \in Etags :
    \E r \in {Run(fs, deleteObjectIfMatchCall(key, etag))} :
      /\ r.f.pc = "done"
      /\ Completed(r, created \ {key})

deleteObject ==
  \E key \in Keys :
    \E r \in {Run(fs, deleteObjectCall(key))} :
      /\ r.f.pc = "done"
      /\ Completed(r, created \ {key})

list ==
  \E prefix \in Prefixes :
    \E r \in {Run(fs, listCall(prefix))} :
      /\ r.f.pc = "done"
      /\ Completed(r, created)

Next ==
  \/ createObject
  \/ putObjectIfMatch
  \/ getObjectIfMatch
  \/ getObject
  \/ deleteObjectIfMatch
  \/ deleteObject
  \/ list

Spec == Init /\ [][Next]_vars

-----------------------------------------------------------------------------
\* SpecConc: two callers whose calls overlap.  The calls are async functions
\* on one event loop: a call runs alone from one await to the next, and at
\* an await of the file system another call may take its steps.  Each step
\* is one awaited call of the handler, and each call of the fs module takes
\* effect at once (writeMeta's mkdir and writeFile are taken as one step: no
\* operation removes a directory in between).

ConcKeys == {KeyA}

ConcEtags == {calculateEtag(b) : b \in Bodies}

ConcPrefixes == {<< >>}

ConcCalls ==
  {createObjectCall(k, b, DefaultContentType) : k \in ConcKeys, b \in Bodies}
    \cup {putObjectIfMatchCall(k, b, e, DefaultContentType) :
            k \in ConcKeys, b \in Bodies, e \in ConcEtags}
    \cup {getObjectIfMatchCall(k, e) : k \in ConcKeys, e \in ConcEtags}
    \cup {getObjectCall(k) : k \in ConcKeys}
    \cup {deleteObjectIfMatchCall(k, e) : k \in ConcKeys, e \in ConcEtags}
    \cup {deleteObjectCall(k) : k \in ConcKeys}
    \cup {listCall(prefix) : prefix \in ConcPrefixes}

\* A caller whose previous call has settled makes its next call.
Invoke(p) ==
  /\ procs[p].pc = "done"
  /\ ncalls[p] < MaxCalls
  /\ \E call \in ConcCalls : procs' = [procs EXCEPT ![p] = call]
  /\ ncalls' = [ncalls EXCEPT ![p] = @ + 1]
  /\ UNCHANGED <<fs, last, created>>

\* The call of p takes its next step.
Resume(p) ==
  /\ procs[p].pc # "done"
  /\ \E r \in {Step(fs, procs[p])} :
       /\ fs' = r.fs
       /\ procs' = [procs EXCEPT ![p] = r.f]
  /\ UNCHANGED <<last, created, ncalls>>

createObjectResume(p) == procs[p].op = "createObject" /\ Resume(p)

putObjectIfMatchResume(p) == procs[p].op = "putObjectIfMatch" /\ Resume(p)

getObjectIfMatchResume(p) == procs[p].op = "getObjectIfMatch" /\ Resume(p)

getObjectResume(p) == procs[p].op = "getObject" /\ Resume(p)

deleteObjectIfMatchResume(p) == procs[p].op = "deleteObjectIfMatch" /\ Resume(p)

deleteObjectResume(p) == procs[p].op = "deleteObject" /\ Resume(p)

listResume(p) == procs[p].op = "list" /\ Resume(p)

NextConc ==
  \E p \in Procs :
    \/ Invoke(p)
    \/ createObjectResume(p)
    \/ putObjectIfMatchResume(p)
    \/ getObjectIfMatchResume(p)
    \/ getObjectResume(p)
    \/ deleteObjectIfMatchResume(p)
    \/ deleteObjectResume(p)
    \/ listResume(p)

SpecConc == Init /\ [][NextConc]_vars

-----------------------------------------------------------------------------
\* Vocabulary of the properties.

\* The data artifact and the metadata artifact of a key: regular files.
DataArtifact(fsys, key) == fsys[getFilePath(key)].kind = "file"
MetaArtifact(fsys, key) == fsys[getMetaPath(key)].kind = "file"

\* In a step of Spec, last' is the call the step makes and completes, fs the
\* store before it and fs' the store after it; last is the call before it.
ArtifactsUnchanged(key) ==
  /\ fs'[getFilePath(key)] = fs[getFilePath(key)]
  /\ fs'[getMetaPath(key)] = fs[getMetaPath(key)]

Returned(f, op) == f.op = op /\ f.status = "ok"

Threw(f, op, name) == f.op = op /\ f.status = "error" /\ f.errName = name

\* The Keys of the batch a list call yielded, in their order.
ListedKeys(f) ==
  IF f.respList = << >> THEN << >>
  ELSE [i \in 1..Len(f.respList[1]) |-> f.respList[1][i].Key]

\* key lies at or below the path of prefix.
Under(prefix, key) ==
  Len(prefix) <= Len(key) /\ SubSeq(key, 1, Len(prefix)) = prefix

-----------------------------------------------------------------------------
\* C1: createObject on a key whose data artifact exists fails with
\* KeyExistsError, and the data and the metadata of the key are after the
\* failed call what they were before it.
C1_CreateExistingFails ==
  [][ (last'.op = "createObject" /\ DataArtifact(fs, last'.key))
        => /\ Threw(last', "createObject", "KeyExistsError")
           /\ ArtifactsUnchanged(last'.key) ]_vars

\* A createObject was refused on a stored key whose content is not the body
\* of the refused call.
C1_Witness ==
  /\ Threw(last, "createObject", "KeyExistsError")
  /\ DataArtifact(fs, last.key)
  /\ fs[getFilePath(last.key)].content # last.body

\* C2: after createObject(k, B) has returned etag E1, putObjectIfMatch(k, B2,
\* E1) returns, with an etag other than E1 when B2 # B; after a
\* putObjectIfMatch(k, B2, ..) that returned E2, getObject(k) returns body B2
\* and getObjectIfMatch(k, E2) returns body B2.
C2_CreatePutGet ==
  [][ /\ ( /\ Returned(last, "createObject")
           /\ last'.op = "putObjectIfMatch"
           /\ last'.key = last.key
           /\ last'.etag = last.respEtag )
        => /\ last'.status = "ok"
           /\ last'.body # last.body => last'.respEtag # last.respEtag
      /\ ( /\ Returned(last, "putObjectIfMatch")
           /\ last'.op = "getObject"
           /\ last'.key = last.key )
        => /\ last'.status = "ok"
           /\ last'.respBody = last.body
      /\ ( /\ Returned(last, "putObjectIfMatch")
           /\ last'.op = "getObjectIfMatch"
           /\ last'.key = last.key
           /\ last'.etag = last.respEtag )
        => /\ last'.status = "ok"
           /\ last'.respBody = last.body ]_vars

\* A putObjectIfMatch returned an etag other than the one it was given, and
\* the store holds its body.
C2_Witness ==
  /\ Returned(last, "putObjectIfMatch")
  /\ last.respEtag # last.etag
  /\ last.key \in created
  /\ fs[getFilePath(last.key)] = FileEnt(last.body)

\* C3: putObjectIfMatch(k, body, E) with E other than the etag stored for k
\* (or with no metadata stored for k) fails with StaleDataError, and the data
\* and the metadata of k are unchanged by the failed call.
C3_StalePutRejected ==
  [][ ( /\ last'.op = "putObjectIfMatch"
        /\ LET meta == readMeta(fs, last'.key) IN
             meta = << >> \/ meta[1].etag # last'.etag )
        => /\ Threw(last', "putObjectIfMatch", "StaleDataError")
           /\ ArtifactsUnchanged(last'.key) ]_vars

\* A putObjectIfMatch was refused on a stored object, with an etag that is
\* the etag of some content but not of the stored one.
C3_Witness ==
  /\ Threw(last, "putObjectIfMatch", "StaleDataError")
  /\ DataArtifact(fs, last.key)
  /\ readMeta(fs, last.key) # << >>
  /\ last.etag # Null
  /\ readMeta(fs, last.key)[1].etag # last.etag

\* C4: getObjectIfMatch(k, E) on a key whose data artifact does not exist
\* fails with the error named 'NoSuchKey', whatever E is.
C4_GetIfMatchMissingIsNoSuchKey ==
  [][ (last'.op = "getObjectIfMatch" /\ ~DataArtifact(fs, last'.key))
        => Threw(last', "getObjectIfMatch", "NoSuchKey") ]_vars

\* C5: deleteObject(k) on a key with neither artifact returns, with etag
\* null, and leaves the store as it was; so does a deleteObject(k) that
\* follows a deleteObject(k).
C5_DeleteIdempotent ==
  [][ /\ ( /\ last'.op = "deleteObject"
           /\ ~DataArtifact(fs, last'.key)
           /\ ~MetaArtifact(fs, last'.key) )
        => /\ last'.status = "ok"
           /\ last'.respEtag = Null
           /\ fs' = fs
      /\ ( /\ Returned(last, "deleteObject")
           /\ last'.op = "deleteObject"
           /\ last'.key = last.key )
        => /\ last'.status = "ok"
           /\ fs' = fs ]_vars

\* C6: list() with no prefix yields the keys created and not deleted since,
\* each once and none of them the name of a metadata artifact; list(prefix)
\* for a prefix path that does not exist, or with no such key at or below
\* it, returns without a batch.
C6_ListEnumeratesStoredKeys ==
  /\ (Returned(last, "list") /\ last.key = << >>)
       => LET ks == ListedKeys(last) IN
            /\ {ks[i] : i \in DOMAIN ks} = created
            /\ \A i, j \in DOMAIN ks : ks[i] = ks[j] => i = j
            /\ \A i \in DOMAIN ks : ~endsWithMeta(ks[i][Len(ks[i])])
  /\ ( /\ last.op = "list"
       /\ \/ access(fs, last.key) # ""
          \/ \A k \in created : ~Under(last.key, k) )
       => /\ last.status = "ok"
          /\ last.respList = << >>

C8_DeleteIfMatchGuard ==
  [][ last'.op = "deleteObjectIfMatch"
        => LET meta == readMeta(fs, last'.key) IN
           IF meta = << >> \/ meta[1].etag # last'.etag
           THEN /\ Threw(last', "deleteObjectIfMatch", "StaleDataError")
                /\ fs' = fs
           ELSE /\ last'.status = "ok"
                /\ last'.respEtag = Null
                /\ ~DataArtifact(fs', last'.key)
                /\ ~MetaArtifact(fs', last'.key) ]_vars

\* C9: a getObjectIfMatch(k, E) that returns, returns etag E and a body
\* whose etag is E, whatever other calls on k overlap it.
C9_GetIfMatchReturnsExpected ==
  \A p \in Procs :
    Returned(procs[p], "getObjectIfMatch")
      => /\ procs[p].respEtag = procs[p].etag
         /\ calculateEtag(procs[p].respBody) = procs[p].etag

\* C10: between completed calls, for every key the data artifact exists
\* exactly when the metadata artifact does, and then the etag of the metadata
\* is the etag of the data.
C10_DataMetaUnit ==
  \A k \in Keys :
    /\ DataArtifact(fs, k) <=> MetaArtifact(fs, k)
    /\ DataArtifact(fs, k)
         => /\ readMeta(fs, k) # << >>
            /\ readMeta(fs, k)[1].etag = calculateEtag(fs[getFilePath(k)].content)

\* C11: every getObject and getObjectIfMatch that returns, returns an etag
\* that is not null, whatever other calls on the key it overlaps.
C11_ReadEtagNotNull ==
  \A p \in Procs :
    (Returned(procs[p], "getObject") \/ Returned(procs[p], "getObjectIfMatch"))
      => procs[p].respEtag # Null

\* C12: the body and the etag a getObject returns agree: the etag is the
\* fingerprint of the body, also when the read overlaps writes to the key.
\* (A read that returns no etag at all is the case of C11 and is left out.)
C12_ReadBodyEtagAgree ==
  \A p \in Procs :
    (Returned(procs[p], "getObject") /\ procs[p].respEtag # Null)
      => procs[p].respEtag = calculateEtag(procs[p].respBody)

\* C13: a getObject that fails because the key does not exist throws an
\* error whose name is 'NoSuchKey', as getObjectIfMatch does.
C13_GetMissingNamedNoSuchKey ==
  (last.op = "getObject" /\ last.status = "error" /\ last.errCode = "NoSuchKey")
    => last.errName = "NoSuchKey"

\* A createObject or putObjectIfMatch that returned.
Written(f) == Returned(f, "createObject") \/ Returned(f, "putObjectIfMatch")

\* C14: the etag a createObject or putObjectIfMatch returns is the one it
\* stores in the sidecar and depends on the body alone: two writes, of any
\* keys and content types, return equal etags exactly when their bodies are
\* equal, and a putObjectIfMatch whose body is the content the key holds
\* returns the expected etag again.
C14_EtagOfBodyAlone ==
  [][ /\ Written(last')
           => /\ readMeta(fs', last'.key) # << >>
              /\ readMeta(fs', last'.key)[1].etag = last'.respEtag
      /\ (Written(last) /\ Written(last'))
           => ((last.body = last'.body) <=> (last.respEtag = last'.respEtag))
      /\ ( /\ Returned(last', "putObjectIfMatch")
           /\ DataArtifact(fs, last'.key)
           /\ fs[getFilePath(last'.key)].content = last'.body )
           => last'.respEtag = last'.etag ]_vars

\* The etag the sidecar of key holds, Null when there is none to read.
StoredEtag(fsys, key) ==
  IF readMeta(fsys, key) = << >> THEN Null ELSE readMeta(fsys, key)[1].etag

\* The steps of putObjectIfMatch after the Conflict Guard.
PastGuard == {"ensureDir", "writeFile", "writeMeta"}

\* C15: a putObjectIfMatch passes the Conflict Guard exactly when the stored
\* etag is the expected one at the moment of that one read, and from then on
\* it never looks at the etag again: it writes and returns.  Two overlapping
\* calls with the same expected etag can therefore both pass and both return
\* (C15_LostUpdate is such a state).
C15_GuardReadOnce ==
  [][ \A p \in Procs :
        (procs[p].op = "putObjectIfMatch" /\ procs'[p] # procs[p])
          => /\ procs[p].pc = "readMeta"
                  => /\ procs'[p].pc = "ensureDir"
                          <=> StoredEtag(fs, procs[p].key) = procs[p].etag
                     /\ procs'[p].pc # "ensureDir"
                          => Threw(procs'[p], "putObjectIfMatch", "StaleDataError")
             /\ procs[p].pc \in PastGuard
                  => /\ procs'[p].status # "error"
                     /\ procs'[p].pc \in PastGuard \cup {"done"} ]_vars

\* Both callers' putObjectIfMatch calls on one key, with the same expected
\* etag, have returned an etag other than the expected one.  The callers
\* have made three calls between them: the one that stored the object and
\* the two updates, so no call restored the expected etag between the two
\* and both passed the guard before either replaced the sidecar.
C15_LostUpdate ==
  /\ Returned(procs[1], "putObjectIfMatch")
  /\ Returned(procs[2], "putObjectIfMatch")
  /\ procs[1].key = procs[2].key
  /\ procs[1].etag = procs[2].etag
  /\ procs[1].respEtag # procs[1].etag
  /\ procs[2].respEtag # procs[2].etag
  /\ ncalls[1] + ncalls[2] = 3

\* Both callers' current calls are putObjectIfMatch calls on one key that
\* have returned; no call is in flight.
BothPutsReturned ==
  /\ Returned(procs[1], "putObjectIfMatch")
  /\ Returned(procs[2], "putObjectIfMatch")
  /\ procs[1].key = procs[2].key

\* C16: once two putObjectIfMatch calls on one key have both returned, the
\* stored data is the body of one of them and the stored etag is the
\* fingerprint of the body of one of them, each artifact written whole; which
\* call each artifact comes from is not tied together, so with different
\* bodies the two can come from different calls (C16_DataMetaApart is such a
\* state).
C16_EachArtifactFromOneCall ==
  BothPutsReturned
    => /\ DataArtifact(fs, procs[1].key)
       /\ fs[getFilePath(procs[1].key)].content \in {procs[1].body, procs[2].body}
       /\ StoredEtag(fs, procs[1].key) \in {procs[1].respEtag, procs[2].respEtag}
       /\ \A p \in Procs : procs[p].respEtag = calculateEtag(procs[p].body)

\* Two putObjectIfMatch calls with different bodies have both returned and
\* the stored etag is not the fingerprint of the stored data.
C16_DataMetaApart ==
  /\ BothPutsReturned
  /\ procs[1].body # procs[2].body
  /\ StoredEtag(fs, procs[1].key) # calculateEtag(fs[getFilePath(procs[1].key)].content)

\* C17: at the step in which a createObject writes the data file of its key,
\* no data file of that key exists, whatever calls overlap it.
C17_CreateNeverOverwrites ==
  [][ \A p \in Procs :
        ( /\ procs[p].op = "createObject"
          /\ procs[p].pc = "writeFile"
          /\ procs'[p].pc = "writeMeta" )
          => ~DataArtifact(fs, procs[p].key) ]_vars

\* C18: a list call lists the keys the store held under the prefix when the
\* traversal started (its first readdir): a createObject or deleteObject
\* that takes effect later neither adds a key to the listing nor removes one
\* from it, and the listing does not fail.
C18_ListIsSnapshot ==
  \A p \in Procs :
    (procs[p].op = "list" /\ procs[p].pc = "done")
      => /\ procs[p].status = "ok"
         /\ {procs[p].results[i].Key : i \in 1..Len(procs[p].results)}
              = {procs[p].started[i].Key : i \in 1..Len(procs[p].started)}

\* C19: putObjectIfMatch on a key that holds no object (none was created, or
\* it was deleted since, and the key has no data file) throws StaleDataError
\* whatever the expected etag, and creates neither artifact.
C19_PutNeverCreates ==
  [][ ( /\ last'.op = "putObjectIfMatch"
        /\ last'.key \notin created
        /\ ~DataArtifact(fs, last'.key) )
        => /\ Threw(last', "putObjectIfMatch", "StaleDataError")
           /\ ~DataArtifact(fs', last'.key)
           /\ ArtifactsUnchanged(last'.key) ]_vars

\* What getObject(key) reports on the store fsys: whether it returns, and
\* the content and etag it returns.
Reported(fsys, key) ==
  LET f == Run(fsys, getObjectCall(key)).f
  IN <<f.status, f.respBody, f.respEtag>>

\* C20: a createObject, putObjectIfMatch, deleteObject or
\* deleteObjectIfMatch on a key leaves what getObject reports for every
\* other key as it was, the key's own sidecar name included.
C20_KeyIsolation ==
  [][ last'.op \in {"createObject", "putObjectIfMatch", "deleteObject", "deleteObjectIfMatch"}
        => \A k2 \in Keys \ {last'.key} : Reported(fs', k2) = Reported(fs, k2) ]_vars
====
